---- MODULE Spec2Model ----
(***************************************************************************)
(* A model of BusinessDatasetSearcher (src/business_search_tool.py): the   *)
(* four source adapters, the per-business dispatch loop                    *)
(* (search_business_across_datasets) and the batch loop                    *)
(* (process_businesses).                                                   *)
(*                                                                         *)
(* Python values.  A str is a sequence of one-character strings, so that   *)
(* lower(), the substring test `in' and split() are computed and not       *)
(* assumed.  A value stored under an envelope's 'data' key is a record     *)
(* tagged with its Python type (None, str, dict).  A dict with optional    *)
(* keys is a function whose DOMAIN is the set of keys present.             *)
(*                                                                         *)
(* Time.  One tick is half a second: time.sleep(0.5) is 1 tick,            *)
(* time.sleep(1) is 2 ticks.                                               *)
(***************************************************************************)
EXTENDS Integers, Sequences, FiniteSets, TLC

(***************************************************************************)
(* Bounds of the model.                                                    *)
(***************************************************************************)
\* longest business list handed to process_businesses
MaxBusinesses == 2
\* longest time (ticks) an HTTP request takes before it returns or raises
MaxLatency == 1
\* how many adapter calls a caller makes directly on one searcher
MaxDirectCalls == 2
\* longest search name (characters) of the name-matching check
MaxNameLen == 3
\* most entries in the issuer directory of the name-matching check
MaxDir == 4
\* most awards in a spending response of the award-summary check
MaxResults == 6

(***************************************************************************)
(* Python helpers.                                                         *)
(***************************************************************************)
None == [type |-> "NoneType"]

\* str(e) / a str stored as data
Str(s) == [type |-> "str", value |-> s]

\* dict.get(key, default)
Get(d, key, default) == IF key \in DOMAIN d THEN d[key] ELSE default

Min(a, b) == IF a < b THEN a ELSE b

\* the values of a list
Range(seq) == { seq[i] : i \in 1..Len(seq) }

\* seq[:n]
Take(seq, n) == SubSeq(seq, 1, Min(n, Len(seq)))

\* sum(seq) of a list of numbers
RECURSIVE Sum(_)
Sum(seq) == IF seq = <<>> THEN 0 ELSE seq[1] + Sum(Tail(seq))

UpperCase ==
    <<"A", "B", "C", "D", "E", "F", "G", "H", "I", "J", "K", "L", "M",
      "N", "O", "P", "Q", "R", "S", "T", "U", "V", "W", "X", "Y", "Z">>

LowerCase ==
    <<"a", "b", "c", "d", "e", "f", "g", "h", "i", "j", "k", "l", "m",
      "n", "o", "p", "q", "r", "s", "t", "u", "v", "w", "x", "y", "z">>

\* str.lower(), one character
LowerChar(c) ==
    IF \E i \in 1..Len(UpperCase) : UpperCase[i] = c
    THEN LowerCase[CHOOSE i \in 1..Len(UpperCase) : UpperCase[i] = c]
    ELSE c

\* str.lower()
Lower(s) == [i \in 1..Len(s) |-> LowerChar(s[i])]

\* `a in b' on two str
IsSubstr(a, b) ==
    \E i \in 0..(Len(b) - Len(a)) :
        \A j \in 1..Len(a) : b[i + j] = a[j]

\* set(s.split()): the maximal runs of non-whitespace characters of s
SplitSet(s) ==
    { SubSeq(s, p[1], p[2]) :
        p \in { q \in (1..Len(s)) \X (1..Len(s)) :
                  /\ q[1] <= q[2]
                  /\ \A x \in q[1]..q[2] : s[x] # " "
                  /\ (q[1] = 1 \/ s[q[1] - 1] = " ")
                  /\ (q[2] = Len(s) \/ s[q[2] + 1] = " ") } }

(***************************************************************************)
(* The HTTP transport (requests.get / requests.post), seen from an         *)
(* adapter: the call raises, or it returns a response with a status code   *)
(* and a body that response.json() parses or rejects.                      *)
(***************************************************************************)
TransportError(msg) == [kind |-> "raise", msg |-> msg]

Response(code, body) == [kind |-> "response", status_code |-> code, body |-> body]

\* a body response.json() parses to `value'
Json(value) == [valid |-> TRUE, value |-> value]

\* a body response.json() rejects
NotJson == [valid |-> FALSE]

(***************************************************************************)
(* What one adapter call did: the envelope it returned or the exception    *)
(* that left it, the number of HTTP requests it issued and the ticks it    *)
(* slept after the response.                                               *)
(***************************************************************************)
Returned(envelope, nreq, slept) ==
    [raised |-> FALSE, value |-> envelope, requests |-> nreq, slept |-> slept]

Raised(msg, nreq, slept) ==
    [raised |-> TRUE, value |-> Str(msg), requests |-> nreq, slept |-> slept]

Envelope(source, status, data) == [source |-> source, status |-> status, data |-> data]

\* self.api_delays, in ticks of half a second
api_delays == [sam |-> 2, usaspending |-> 1, census |-> 1, edgar |-> 2, sba |-> 1]

\* time.sleep(1) between two businesses, in ticks of half a second
InterBusinessDelay == 2

\* an except branch that keeps the message out of the envelope
MessageDropped(source, msg, escapes, nreq, slept) ==
    IF escapes
    THEN Raised(msg, nreq, slept)
    ELSE Returned(Envelope(source, "error", None), nreq, slept)

\* An adapter's `except Exception as e' branch: the error envelope carrying
\* str(e); `escapes' is the case where formatting e raises in turn, so that
\* the exception leaves the adapter.
ExceptHandler(source, msg, escapes, nreq, slept) ==
    IF escapes
    THEN Raised(msg, nreq, slept)
    ELSE Returned(Envelope(source, "error", Str(msg)), nreq, slept)

(***************************************************************************)
(* search_sam_gov                                                          *)
(***************************************************************************)
\* `if location_info and location_info.get('state')'
HasState(location_info) ==
    /\ location_info # None
    /\ Get(location_info, "state", None) \notin {None, Str("")}

\* the query parameters of the SAM.gov request
SamParams(business_name, location_info, api_key) ==
    [api_key |-> api_key,
     legalBusinessName |-> business_name,
     stateOrProvinceCode |-> IF HasState(location_info) THEN location_info["state"] ELSE None]

\* the payload built from entities[0]
SamEntityData(entity) ==
    [type |-> "dict",
     uei |-> Get(Get(entity, "entityRegistration", <<>>), "ueiSAM", None),
     cage_code |-> Get(Get(entity, "entityRegistration", <<>>), "cageCode", None),
     legal_name |-> Get(Get(entity, "coreData", <<>>), "legalBusinessName", None),
     registration_status |->
         Get(Get(entity, "entityRegistration", <<>>), "registrationStatus", None),
     naics_codes |->
         LET primary == Get(Get(entity, "naicsInformation", <<>>), "primaryNaics", <<>>)
         IN  [i \in 1..Len(primary) |-> Get(primary[i], "naicsCode", None)]]

\* the part of search_sam_gov after the response has arrived and the
\* adapter has slept
SamOnResponse(http, escapes, slept) ==
    IF http.status_code = 200
    THEN IF ~http.body.valid
         THEN ExceptHandler("SAM.gov", "invalid JSON", escapes, 1, slept)
         ELSE LET entities == Get(http.body.value, "entityData", <<>>)
              IN  IF entities # <<>>
                  THEN Returned(Envelope("SAM.gov", "found", SamEntityData(entities[1])),
                                1, slept)
                  ELSE Returned(Envelope("SAM.gov", "not_found", None), 1, slept)
    ELSE Returned(Envelope("SAM.gov", "not_found", None), 1, slept)

\* a search_sam_gov that sends the request without looking at the credential
KeyNeverMissing(api_key) == FALSE

\* the credential check of search_sam_gov: `if not params['api_key']'
SamKeyMissing(api_key) == api_key = <<>>

search_sam_gov(business_name, location_info, api_key, http, escapes) ==
    IF SamKeyMissing(SamParams(business_name, location_info, api_key).api_key)
    THEN Returned(Envelope("SAM.gov", "API key required", None), 0, 0)
    ELSE IF http.kind = "raise"
         THEN ExceptHandler("SAM.gov", http.msg, escapes, 1, 0)
         ELSE SamOnResponse(http, escapes, api_delays["sam"])

(***************************************************************************)
(* search_usaspending                                                      *)
(***************************************************************************)
\* one entry of the `awards' list
AwardEntry(award) ==
    [award_id |-> Get(award, "Award ID", None),
     recipient_name |-> Get(award, "Recipient Name", None),
     amount |-> Get(award, "Award Amount", 0),
     type |-> Get(award, "Award Type", None),
     start_date |-> Get(award, "Period of Performance Start Date", None)]

\* the list `awards' built by the loop over results, in the loop's order
AwardEntries(results) == [i \in 1..Len(results) |-> AwardEntry(results[i])]

\* a total taken over the awards that are shown only
TotalOfShown(results) ==
    Sum([i \in 1..Min(5, Len(results)) |-> Get(results[i], "Award Amount", 0)])

\* total_amount after the loop over results
TotalAmount(results) ==
    Sum([i \in 1..Len(results) |-> Get(results[i], "Award Amount", 0)])

\* awards[:5]
ShownAwards(awards) == Take(awards, 5)

\* the payload of a found spending envelope
SpendingData(results) ==
    [type |-> "dict",
     total_awards |-> Len(AwardEntries(results)),
     total_amount |-> TotalAmount(results),
     awards |-> ShownAwards(AwardEntries(results))]

search_usaspending(business_name, http, escapes) ==
    IF http.kind = "raise"
    THEN ExceptHandler("USAspending.gov", http.msg, escapes, 1, 0)
    ELSE LET slept == api_delays["usaspending"]
         IN  IF http.status_code = 200
             THEN IF ~http.body.valid
                  THEN ExceptHandler("USAspending.gov", "invalid JSON", escapes, 1, slept)
                  ELSE LET results == Get(http.body.value, "results", <<>>)
                       IN  IF results # <<>>
                           THEN Returned(Envelope("USAspending.gov", "found",
                                                  SpendingData(results)), 1, slept)
                           ELSE Returned(Envelope("USAspending.gov", "not_found", None),
                                         1, slept)
             ELSE Returned(Envelope("USAspending.gov", "not_found", None), 1, slept)

(***************************************************************************)
(* search_edgar_sec                                                        *)
(***************************************************************************)
\* company_data.get('title', '').lower()
CompanyName(company_data) == Lower(Get(company_data, "title", <<>>))

\* `search_name in company_name or company_name in search_name'
IsCandidate(search_name, company_name) ==
    IsSubstr(search_name, company_name) \/ IsSubstr(company_name, search_name)

\* len(set(search_name.split()) & set(company_name.split()))
MatchScore(search_name, company_name) ==
    Cardinality(SplitSet(search_name) \cap SplitSet(company_name))

\* the dict appended to `matches' for one directory entry
MatchEntry(search_name, company_data) ==
    [cik |-> Get(company_data, "cik_str", None),
     ticker |-> Get(company_data, "ticker", Str("")),
     company_name |-> IF "title" \in DOMAIN company_data
                      THEN Str(company_data["title"]) ELSE None,
     match_score |-> MatchScore(search_name, CompanyName(company_data))]

\* the list `matches' after the loop over companies.items(), in the
\* directory's order; an entry that is not a dict is skipped
RECURSIVE Matches(_, _)
Matches(search_name, companies) ==
    IF companies = <<>>
    THEN <<>>
    ELSE LET company_data == companies[1]
             rest == Matches(search_name, Tail(companies))
         IN  IF /\ company_data.isdict
                /\ IsCandidate(search_name, CompanyName(company_data))
             THEN <<MatchEntry(search_name, company_data)>> \o rest
             ELSE rest

\* insertion of one match into a list sorted by descending score, after
\* the entries of equal score
RECURSIVE InsertByScore(_, _)
InsertByScore(m, sorted) ==
    IF sorted = <<>>
    THEN <<m>>
    ELSE IF sorted[1].match_score >= m.match_score
         THEN <<sorted[1]>> \o InsertByScore(m, Tail(sorted))
         ELSE <<m>> \o sorted

\* a search that forgets to sort
LeftUnsorted(matches) == matches

\* matches.sort(key=match_score, reverse=True): stable, so matches of equal
\* score keep the directory's order
RECURSIVE SortByScore(_)
SortByScore(matches) ==
    IF matches = <<>>
    THEN <<>>
    ELSE InsertByScore(matches[Len(matches)],
                       SortByScore(SubSeq(matches, 1, Len(matches) - 1)))

\* matches[:3]
TopMatches(sorted) == Take(sorted, 3)

\* the payload of a found filings envelope
EdgarData(matches) ==
    LET sorted == SortByScore(matches)
    IN  [type |-> "dict",
         matches_found |-> Len(sorted),
         best_match |-> sorted[1],
         all_matches |-> TopMatches(sorted)]

search_edgar_sec(business_name, http, escapes) ==
    IF http.kind = "raise"
    THEN ExceptHandler("SEC EDGAR", http.msg, escapes, 1, 0)
    ELSE LET slept == api_delays["edgar"]
         IN  IF http.status_code = 200
             THEN IF ~http.body.valid
                  THEN ExceptHandler("SEC EDGAR", "invalid JSON", escapes, 1, slept)
                  ELSE LET matches == Matches(Lower(business_name), http.body.value.items)
                       IN  IF matches # <<>>
                           THEN Returned(Envelope("SEC EDGAR", "found", EdgarData(matches)),
                                         1, slept)
                           ELSE Returned(Envelope("SEC EDGAR", "not_found", None), 1, slept)
             ELSE Returned(Envelope("SEC EDGAR", "not_found", None), 1, slept)

(***************************************************************************)
(* search_sba_data                                                         *)
(***************************************************************************)
SbaDatasets ==
    <<"PPP Loan Data", "8(a) Business Development", "HUBZone Certified Companies",
      "Women-Owned Small Business", "Service-Disabled Veteran-Owned">>

\* a stub that reports a plain miss instead
SbaReportsMiss(business_name, location_info) ==
    Returned(Envelope("SBA Data", "not_found", None), 0, 0)

\* the body of the try block is one return statement: nothing in it can
\* raise, and no request is issued
search_sba_data(business_name, location_info) ==
    Returned(Envelope("SBA Data", "requires_csv_processing",
                      [type |-> "dict",
                       note |-> "SBA data requires downloading CSV files and local processing",
                       datasets_to_check |-> SbaDatasets]),
             0, 0)

(***************************************************************************)
(* Inputs and environment outcomes the model draws from.                   *)
(***************************************************************************)
\* a row with every location column filled, and a row of a file that has
\* only the business_name column
BusinessPool ==
    { [business_name |-> <<"a", "B">>, city |-> Str("LA"), state |-> Str("CA"),
       zip |-> Str("90001")],
      [business_name |-> <<"B", "b">>] }

\* all lists of at most n elements of S
SeqsUpTo(S, n) == UNION { [1..m -> S] : m \in 0..n }

\* SAM_API_KEY unset (or empty), or set
ApiKeys == { <<>>, <<"k">> }

SamEntity ==
    [entityRegistration |-> [ueiSAM |-> Str("UEI1"), cageCode |-> Str("CAGE1"),
                             registrationStatus |-> Str("Active")],
     coreData |-> [legalBusinessName |-> Str("A B LLC")],
     naicsInformation |-> [primaryNaics |-> <<[naicsCode |-> Str("541511")]>>]]

Award(id, amount) == ("Award ID" :> Str(id)) @@ ("Award Amount" :> amount)

Company(cik, title) ==
    [isdict |-> TRUE, cik_str |-> cik, ticker |-> Str("T"), title |-> title]

\* the parsed company_tickers.json: a dict whose items() are `entries'
Directory(entries) == [items |-> entries]

\* a directory of two issuers and one value that is not a dict
SampleDirectory ==
    Directory(<<Company(1, <<"A", "b">>), [isdict |-> FALSE], Company(2, <<"A", " ", "a">>)>>)

NoHttp == [kind |-> "none"]

\* what the transport may answer to each adapter's request
HttpPool(fn) ==
    CASE fn = "sam_gov" ->
           { TransportError("connection refused"),
             Response(500, NotJson),
             Response(200, Json([entityData |-> <<>>])),
             Response(200, Json([entityData |-> <<SamEntity>>])) }
      [] fn = "usaspending" ->
           { TransportError("connection refused"),
             Response(500, NotJson),
             Response(200, Json([results |-> <<>>])),
             Response(200, Json([results |-> <<Award("A1", 3), Award("A2", 1)>>])) }
      [] fn = "edgar_sec" ->
           { TransportError("connection refused"),
             Response(500, NotJson),
             Response(200, NotJson),
             Response(200, Json(Directory(<<>>))),
             Response(200, Json(SampleDirectory)) }
      [] OTHER -> { NoHttp }

\* How one source behaves for the whole of a batch run: what its transport
\* answers, and whether the exception it causes escapes the adapter's handler.
Behaviour(http, escapes) == [http |-> http, escapes |-> escapes]

WorldPool(fn) ==
    CASE fn = "sam_gov" ->
           { Behaviour(TransportError("connection refused"), FALSE),
             Behaviour(TransportError("connection refused"), TRUE),
             Behaviour(Response(500, NotJson), FALSE),
             Behaviour(Response(200, Json([entityData |-> <<SamEntity>>])), FALSE) }
      [] fn = "usaspending" ->
           { Behaviour(TransportError("connection refused"), FALSE),
             Behaviour(TransportError("connection refused"), TRUE),
             Behaviour(Response(200, Json([results |-> <<>>])), FALSE),
             Behaviour(Response(200, Json([results |-> <<Award("A1", 3), Award("A2", 1)>>])),
                       FALSE) }
      [] fn = "edgar_sec" ->
           { Behaviour(TransportError("connection refused"), FALSE),
             Behaviour(Response(200, NotJson), FALSE),
             Behaviour(Response(200, NotJson), TRUE),
             Behaviour(Response(200, Json(SampleDirectory)), FALSE) }
      [] OTHER -> { Behaviour(NoHttp, FALSE) }

(***************************************************************************)
(* State.                                                                  *)
(***************************************************************************)
VARIABLES
    businesses,        \* the list handed to process_businesses
    api_key,           \* os.getenv('SAM_API_KEY', '')
    world,             \* per adapter: how its source behaves during a batch run
    probe,             \* the input of a single-adapter check
    pc,                \* where the caller is: idle, loop, dispatch, return, done
    idx,               \* businesses already handled by process_businesses
    k,                 \* next entry of datasets_to_search in the dispatch loop
    business_results,  \* the record search_business_across_datasets is building
    all_results,       \* process_businesses' all_results
    elapsed,           \* per source: ticks since its last request was issued
    lastGap,           \* per source: `elapsed' as its latest request was issued
    last,              \* the latest adapter call: arguments, transport, outcome
    calls,             \* direct adapter calls made so far
    dispatch_raised,   \* positions of the businesses whose dispatch raised
    pause              \* ticks process_businesses slept since the latest dispatch ended

vars == <<businesses, api_key, world, probe, pc, idx, k, business_results, all_results,
          elapsed, lastGap, last, calls, dispatch_raised, pause>>

\* the sources that are queried over HTTP, by their api_delays key
Sources == {"sam", "usaspending", "edgar"}

\* the api_delays key of each adapter
DelayKey(fn) ==
    CASE fn = "sam_gov" -> "sam"
      [] fn = "usaspending" -> "usaspending"
      [] fn = "edgar_sec" -> "edgar"
      [] OTHER -> "sba"

\* elapsed times are tracked up to the longest delay; longer is not told apart
Horizon == IF api_delays["sam"] > InterBusinessDelay THEN api_delays["sam"] ELSE InterBusinessDelay

\* d ticks pass
Advance(el, d) == [s \in Sources |-> Min(Horizon, el[s] + d)]

NoCall == [fn |-> "none"]

NoProbe == [kind |-> "none"]

NoWorld == [sba_data |-> Behaviour(NoHttp, FALSE)]

NoRecord == [business_name |-> <<>>]

(***************************************************************************)
(* One adapter call and its effects.                                       *)
(***************************************************************************)
\* datasets_to_search: the adapters in dispatch order
datasets_to_search == <<"sam_gov", "usaspending", "edgar_sec", "sba_data">>

\* search_func(): the lambda of datasets_to_search named fn
Invoke(fn, business_name, location_info, key, http, escapes) ==
    CASE fn = "sam_gov" -> search_sam_gov(business_name, location_info, key, http, escapes)
      [] fn = "usaspending" -> search_usaspending(business_name, http, escapes)
      [] fn = "edgar_sec" -> search_edgar_sec(business_name, http, escapes)
      [] OTHER -> search_sba_data(business_name, location_info)

\* the record of a call kept in `last'
CallRecord(fn, business_name, location_info, key, http, res) ==
    [fn |-> fn, business_name |-> business_name, location_info |-> location_info,
     api_key |-> key, http |-> IF res.requests = 0 THEN NoHttp ELSE http, result |-> res]

\* The clock effects of a call: a request is issued `elapsed' ticks after the
\* previous one to the same source, takes `latency' ticks, and the adapter
\* then sleeps res.slept ticks.
TimeAfterCall(fn, res, latency) ==
    IF res.requests = 0
    THEN Advance(elapsed, res.slept)
    ELSE Advance([elapsed EXCEPT ![DelayKey(fn)] = 0], latency + res.slept)

GapAfterCall(fn, res) ==
    IF res.requests = 0
    THEN lastGap
    ELSE [lastGap EXCEPT ![DelayKey(fn)] = elapsed[DelayKey(fn)]]

\* The environment's part in a call: the transport's answer, how long it
\* took, and whether an exception escapes the adapter's handler.
EnvChoice(fn, res, http, escapes, latency) ==
    /\ escapes => res.raised
    /\ res.requests = 0 => (latency = 0 /\ http = CHOOSE h \in HttpPool(fn) : TRUE)

(***************************************************************************)
(* search_business_across_datasets                                         *)
(***************************************************************************)
\* location_info as built from business_info
LocationOf(business_info) ==
    [city |-> Get(business_info, "city", None),
     state |-> Get(business_info, "state", None),
     zip |-> Get(business_info, "zip", None)]

\* business_results before the loop over datasets_to_search (the
\* search_timestamp is left out: nothing reads it)
NewBusinessResults(business_info) ==
    [business_name |-> Get(business_info, "business_name", <<>>),
     location |-> LocationOf(business_info),
     datasets_searched |-> <<>>]

\* a dispatch loop that swallows the exception: the slot is reported as a
\* plain miss
SwallowedFailure(dataset_name, res) ==
    IF res.raised
    THEN Envelope(dataset_name, "not_found", None)
    ELSE res.value

\* the envelope one iteration of the dispatch loop appends: the adapter's
\* own, or the fallback built from the exception that left the adapter
DispatchEnvelope(dataset_name, res) ==
    IF res.raised
    THEN Envelope(dataset_name, "error", res.value)
    ELSE res.value

\* the next iteration's index; past the last adapter the function returns
NextDataset(i) == i + 1

\* one iteration of `for dataset_name, search_func in datasets_to_search'
SearchDataset ==
    /\ pc = "dispatch"
    /\ \E latency \in 0..MaxLatency :
         LET fn == datasets_to_search[k]
             http == world[fn].http
             res == Invoke(fn, business_results.business_name,
                           business_results.location, api_key, http, world[fn].escapes)
         IN  /\ res.requests = 0 => latency = 0
             /\ business_results' =
                  [business_results EXCEPT !.datasets_searched =
                       Append(@, DispatchEnvelope(fn, res))]
             /\ last' = CallRecord(fn, business_results.business_name,
                                   business_results.location, api_key, http, res)
             /\ elapsed' = TimeAfterCall(fn, res, latency)
             /\ lastGap' = GapAfterCall(fn, res)
    /\ k' = NextDataset(k)
    /\ pc' = IF k' > Len(datasets_to_search) THEN "return" ELSE "dispatch"
    /\ UNCHANGED <<businesses, api_key, world, probe, idx, all_results, calls, dispatch_raised,
                   pause>>

(***************************************************************************)
(* process_businesses                                                      *)
(***************************************************************************)
\* the call itself: all_results = []
ProcessBusinesses ==
    /\ pc = "idle"
    /\ calls = 0
    /\ probe = NoProbe
    /\ pc' = "loop"
    /\ idx' = 0
    /\ all_results' = <<>>
    /\ UNCHANGED <<businesses, api_key, world, probe, k, business_results, elapsed, lastGap,
                   last, calls, dispatch_raised,
                   pause>>

\* the loop takes the next business and search_business_across_datasets
\* starts on it
BeginBusiness ==
    /\ pc = "loop"
    /\ idx < Len(businesses)
    /\ business_results' = NewBusinessResults(businesses[idx + 1])
    /\ k' = 1
    /\ pc' = "dispatch"
    /\ UNCHANGED <<businesses, api_key, world, probe, idx, all_results, elapsed, lastGap,
                   last, calls, dispatch_raised,
                   pause>>

\* all_results after the try block completed for one business
AppendResult(results, result) == Append(results, result)

\* search_business_across_datasets returns; the try block appends the record
\* and sleeps (after the last business as well)
FinishBusiness ==
    /\ pc = "return"
    /\ all_results' = AppendResult(all_results, business_results)
    /\ elapsed' = Advance(elapsed, InterBusinessDelay)
    /\ pause' = InterBusinessDelay
    /\ idx' = idx + 1
    /\ pc' = "loop"
    /\ UNCHANGED <<businesses, api_key, world, probe, k, business_results, lastGap, last,
                   calls, dispatch_raised>>

\* an except block that only logs
ErrorRecordDropped(results, business, msg) == results

\* all_results after the except block ran for one business
AppendErrorRecord(results, business, msg) ==
    Append(results, [business_name |-> Get(business, "business_name", None),
                     error |-> Str(msg)])

\* an except block that gives up on the rest of the batch
BatchAborted(i) == Len(businesses)

\* where the batch loop continues after the except block
AfterDispatchError(i) == i + 1

\* search_business_across_datasets raises for the next business; the except
\* block of process_businesses records it, and the time.sleep of the try
\* block is not reached
DispatchRaises ==
    /\ pc = "loop"
    /\ idx < Len(businesses)
    /\ all_results' = AppendErrorRecord(all_results, businesses[idx + 1], "dispatch failed")
    /\ idx' = AfterDispatchError(idx)
    /\ dispatch_raised' = dispatch_raised \cup {idx + 1}
    /\ pause' = 0
    /\ UNCHANGED <<businesses, api_key, world, probe, pc, k, business_results, elapsed,
                   lastGap, last, calls>>

\* return all_results
ReturnResults ==
    /\ pc = "loop"
    /\ idx >= Len(businesses)
    /\ pc' = "done"
    /\ UNCHANGED <<businesses, api_key, world, probe, idx, k, business_results, all_results,
                   elapsed, lastGap, last, calls, dispatch_raised,
                   pause>>

(***************************************************************************)
(* An adapter called directly on the searcher.                             *)
(***************************************************************************)
CallAdapter(fn, business_name, location_info, http, escapes, latency) ==
    /\ pc = "idle"
    /\ LET res == Invoke(fn, business_name, location_info, api_key, http, escapes)
       IN  /\ EnvChoice(fn, res, http, escapes, latency)
           /\ last' = CallRecord(fn, business_name, location_info, api_key, http, res)
           /\ elapsed' = TimeAfterCall(fn, res, latency)
           /\ lastGap' = GapAfterCall(fn, res)
    /\ calls' = calls + 1
    /\ UNCHANGED <<businesses, api_key, world, probe, pc, idx, k, business_results,
                   all_results, dispatch_raised,
                   pause>>

\* the (business_name, location_info) arguments a direct caller passes
DirectArgs ==
    { <<b.business_name, LocationOf(b)>> : b \in BusinessPool } \cup
    { <<b.business_name, None>> : b \in BusinessPool }

DirectCall ==
    /\ calls < MaxDirectCalls
    /\ probe = NoProbe
    /\ \E i \in 1..Len(datasets_to_search), args \in DirectArgs :
         \E http \in HttpPool(datasets_to_search[i]), escapes \in BOOLEAN,
            latency \in 0..MaxLatency :
           CallAdapter(datasets_to_search[i], args[1], args[2], http, escapes, latency)

(***************************************************************************)
(* Specifications.                                                         *)
(***************************************************************************)
InitCommon ==
    /\ pc = "idle"
    /\ idx = 0
    /\ k = 1
    /\ business_results = NoRecord
    /\ all_results = <<>>
    /\ elapsed = [s \in Sources |-> Horizon]
    /\ lastGap = [s \in Sources |-> Horizon]
    /\ last = NoCall
    /\ calls = 0
    /\ dispatch_raised = {}
    /\ pause = 0

\* one process_businesses run on a fresh searcher, as main() makes it
Init ==
    /\ businesses \in SeqsUpTo(BusinessPool, MaxBusinesses)
    /\ api_key \in ApiKeys
    /\ \E sam \in WorldPool("sam_gov"), usa \in WorldPool("usaspending"),
          edgar \in WorldPool("edgar_sec"), sba \in WorldPool("sba_data") :
         /\ SamKeyMissing(api_key) => sam = CHOOSE b \in WorldPool("sam_gov") : TRUE
         /\ world = [sam_gov |-> sam, usaspending |-> usa, edgar_sec |-> edgar,
                     sba_data |-> sba]
    /\ probe = NoProbe
    /\ InitCommon

Next ==
    \/ ProcessBusinesses
    \/ BeginBusiness
    \/ SearchDataset
    \/ FinishBusiness
    \/ DispatchRaises
    \/ ReturnResults

Spec == Init /\ [][Next]_vars

\* adapters called directly, one after the other, on one searcher
InitDirect ==
    /\ businesses = <<>>
    /\ api_key \in ApiKeys
    /\ world = NoWorld
    /\ probe = NoProbe
    /\ InitCommon

NextDirect == DirectCall

SpecDirect == InitDirect /\ [][NextDirect]_vars

(***************************************************************************)
(* search_edgar_sec on its own: every search name of at most MaxNameLen    *)
(* characters against every directory of at most MaxDir entries.           *)
(***************************************************************************)
Alphabet == {"a", "B", " "}

\* the kinds of directory entry: two titles and an entry without a title
EntryKinds == { <<"t", <<"a", " ", "B">> >>, <<"t", <<"B">> >>, <<"untitled", <<>> >> }

\* the directory entry of kind `kind' at position i
EntryOf(kind, i) ==
    IF kind[1] = "t"
    THEN Company(i, kind[2])
    ELSE [isdict |-> TRUE, cik_str |-> i, ticker |-> Str("T")]

EdgarProbe(name, kinds) ==
    [kind |-> "edgar", business_name |-> name,
     entries |-> [i \in 1..Len(kinds) |-> EntryOf(kinds[i], i)]]

InitEdgar ==
    /\ businesses = <<>>
    /\ api_key = <<>>
    /\ world = NoWorld
    /\ \E name \in SeqsUpTo(Alphabet, MaxNameLen), kinds \in SeqsUpTo(EntryKinds, MaxDir) :
         probe = EdgarProbe(name, kinds)
    /\ InitCommon

EdgarProbeCall ==
    /\ probe.kind = "edgar"
    /\ calls = 0
    /\ CallAdapter("edgar_sec", probe.business_name, None,
                   Response(200, Json(Directory(probe.entries))), FALSE, 0)

NextEdgar == EdgarProbeCall

SpecEdgar == InitEdgar /\ [][NextEdgar]_vars

(***************************************************************************)
(* search_usaspending on its own: every result list of at most MaxResults  *)
(* awards.                                                                 *)
(***************************************************************************)
AwardPool == { Award("A1", 3), Award("A2", 1), "Award ID" :> Str("A3") }

SpendingProbe(results) ==
    [kind |-> "spending", business_name |-> <<"a">>, results |-> results]

InitSpending ==
    /\ businesses = <<>>
    /\ api_key = <<>>
    /\ world = NoWorld
    /\ \E results \in SeqsUpTo(AwardPool, MaxResults) : probe = SpendingProbe(results)
    /\ InitCommon

SpendingProbeCall ==
    /\ probe.kind = "spending"
    /\ calls = 0
    /\ CallAdapter("usaspending", probe.business_name, None,
                   Response(200, Json([results |-> probe.results])), FALSE, 0)

NextSpending == SpendingProbeCall

SpecSpending == InitSpending /\ [][NextSpending]_vars

(***************************************************************************)
(* Readers used by the properties.                                         *)
(***************************************************************************)
\* result.get('datasets_searched', []), as generate_report reads a record
Envelopes(r) == Get(r, "datasets_searched", <<>>)

\* the records of all_results that search_business_across_datasets returned
IsFull(r) == "datasets_searched" \in DOMAIN r

\* the records built or being built by the dispatch loop
DispatchedRecords ==
    { all_results[i] : i \in { j \in 1..Len(all_results) : IsFull(all_results[j]) } }
    \cup (IF pc \in {"dispatch", "return"} THEN {business_results} ELSE {})

\* every envelope the program holds
AllEnvelopes ==
    UNION { { r.datasets_searched[j] : j \in 1..Len(r.datasets_searched) } :
            r \in DispatchedRecords }

\* what adapter number j does for record r in this run, by itself
OwnOutcome(r, j) ==
    Invoke(datasets_to_search[j], r.business_name, r.location, api_key,
           world[datasets_to_search[j]].http, world[datasets_to_search[j]].escapes)

(***************************************************************************)
(* C1.  process_businesses returns one record per input business, in       *)
(* input order: while the batch runs, all_results holds exactly one record *)
(* for each business handled so far, the i-th record naming the i-th       *)
(* business, and at the return the list is as long as the input, whatever  *)
(* the adapters did and for whichever businesses the dispatch raised.      *)
(***************************************************************************)
C1_OneRecordPerBusiness ==
    pc # "idle" =>
      /\ Len(all_results) = idx
      /\ \A i \in 1..Len(all_results) :
           /\ i <= Len(businesses)
           /\ all_results[i].business_name = businesses[i].business_name
      /\ pc = "done" => Len(all_results) = Len(businesses)

\* two different businesses, the dispatch raised for the first, an adapter
\* raised for the second, and the batch has returned
C1_Witness ==
    /\ pc = "done"
    /\ Len(businesses) = 2
    /\ businesses[1] # businesses[2]
    /\ dispatch_raised = {1}
    /\ IsFull(all_results[2])
    /\ \E j \in 1..3 : OwnOutcome(all_results[2], j).raised

(***************************************************************************)
(* C2.  Every record search_business_across_datasets returns holds exactly *)
(* 4 envelopes whose sources are, in this order, SAM.gov, USAspending.gov, *)
(* SEC EDGAR and SBA Data, for every combination of adapter outcomes, an   *)
(* adapter raising included.                                               *)
(***************************************************************************)
SourceLabels == <<"SAM.gov", "USAspending.gov", "SEC EDGAR", "SBA Data">>

C2_FourLabelledEnvelopes ==
    \A i \in 1..Len(all_results) :
        IsFull(all_results[i]) =>
          /\ Len(all_results[i].datasets_searched) = 4
          /\ \A j \in 1..4 : all_results[i].datasets_searched[j].source = SourceLabels[j]

(***************************************************************************)
(* C3.  Fault isolation: in every record of the dispatch loop each slot    *)
(* filled so far holds what its own adapter produces for that business,    *)
(* whatever the other adapters did; the slot of an adapter that raised     *)
(* holds an error envelope carrying the exception's message; and a         *)
(* returned record has all 4 slots.                                        *)
(***************************************************************************)
C3_FaultIsolation ==
    \A r \in DispatchedRecords :
        /\ \A j \in 1..Len(r.datasets_searched) :
             LET own == OwnOutcome(r, j)
                 env == r.datasets_searched[j]
             IN  /\ ~own.raised => env = own.value
                 /\ own.raised => (env.status = "error" /\ env.data = own.value)
                 /\ (~own.raised /\ own.value.status = "error") =>
                       env.data = Str(IF world[datasets_to_search[j]].http.kind = "raise"
                                      THEN world[datasets_to_search[j]].http.msg
                                      ELSE "invalid JSON")
        /\ (r \in { all_results[i] : i \in 1..Len(all_results) }) =>
              Len(r.datasets_searched) = Len(datasets_to_search)

\* a returned record in which exactly one adapter raised, and the three
\* others found the business or answered as the stub does
C3_Witness ==
    \E i \in 1..Len(all_results) :
        /\ IsFull(all_results[i])
        /\ OwnOutcome(all_results[i], 2).raised
        /\ all_results[i].datasets_searched[1].status = "found"
        /\ all_results[i].datasets_searched[2].status = "error"
        /\ all_results[i].datasets_searched[3].status = "found"
        /\ all_results[i].datasets_searched[4].status = "requires_csv_processing"

(***************************************************************************)
(* C4.  As claimed: every envelope's data is not None exactly when its     *)
(* status is found.                                                        *)
(***************************************************************************)
C4_PayloadIffFound ==
    \A env \in AllEnvelopes : (env.data # None) <=> (env.status = "found")

(***************************************************************************)
(* C4, amended.  Every envelope's data is None exactly when its status is  *)
(* not_found or API key required; a found or requires_csv_processing       *)
(* envelope carries a dict and an error envelope carries the failure       *)
(* message, a str.                                                         *)
(***************************************************************************)
C4_PayloadByStatus ==
    \A env \in AllEnvelopes :
        /\ env.status \in {"found", "not_found", "API key required",
                           "requires_csv_processing", "error"}
        /\ (env.data = None) <=> (env.status \in {"not_found", "API key required"})
        /\ env.status \in {"found", "requires_csv_processing"} => env.data.type = "dict"
        /\ env.status = "error" => env.data.type = "str"

\* the five statuses side by side in one run, the error envelope being the
\* dispatch loop's fallback
C4_Witness ==
    /\ { env.status : env \in AllEnvelopes } =
         {"found", "not_found", "API key required", "requires_csv_processing", "error"}
    /\ \E env \in AllEnvelopes : env.status = "error" /\ env.source \in Range(datasets_to_search)

(***************************************************************************)
(* C5.  With SAM_API_KEY unset or empty, search_sam_gov returns the        *)
(* envelope with status API key required, for every business name and      *)
(* location (None included), and issues no HTTP request.                   *)
(***************************************************************************)
C5_NoKeyNoRequest ==
    (last.fn = "sam_gov" /\ last.api_key = <<>>) =>
      /\ ~last.result.raised
      /\ last.result.value = Envelope("SAM.gov", "API key required", None)
      /\ last.result.requests = 0
      /\ last.http = NoHttp

\* search_sam_gov was called without a key twice in a row: with a location
\* that names a state, then with another business and no location at all
C5_Witness ==
    /\ last.fn = "sam_gov"
    /\ last.api_key = <<>>
    /\ last.location_info = None
    /\ calls = 2
    /\ elapsed = [s \in Sources |-> Horizon]

(***************************************************************************)
(* C6.  search_sba_data returns the envelope with status                   *)
(* requires_csv_processing for every business name and location and        *)
(* issues no HTTP request; the 4th envelope of every record the dispatch   *)
(* returned has that status.                                               *)
(***************************************************************************)
C6_SbaAlwaysOffline ==
    /\ last.fn = "sba_data" =>
         /\ ~last.result.raised
         /\ last.result.value.source = "SBA Data"
         /\ last.result.value.status = "requires_csv_processing"
         /\ last.result.requests = 0
    /\ \A i \in 1..Len(all_results) :
         IsFull(all_results[i]) =>
           /\ Len(all_results[i].datasets_searched) >= 4
           /\ all_results[i].datasets_searched[4].status = "requires_csv_processing"

\* a finished batch of two different businesses, both with a full record,
\* in a run where the three other adapters all failed
C6_Witness ==
    /\ pc = "done"
    /\ Len(all_results) = 2
    /\ all_results[1].business_name # all_results[2].business_name
    /\ \A i \in 1..2 :
         /\ IsFull(all_results[i])
         /\ \A j \in 1..3 : all_results[i].datasets_searched[j].status = "error"
    /\ last.fn = "sba_data"

(***************************************************************************)
(* C7.  Any two consecutive requests to the same source are at least that  *)
(* source's delay apart, whatever the outcome of the earlier one: the gap  *)
(* measured as each request is issued is never below api_delays.           *)
(***************************************************************************)
C7_RequestsSpaced == \A s \in Sources : lastGap[s] >= api_delays[s]

(***************************************************************************)
(* C8.  For every business whose dispatch raised, all_results holds at its *)
(* position a record without envelopes that names the business and carries *)
(* the error note; the batch goes on: at the return every later business   *)
(* has its own record, a full one unless its own dispatch raised as well.  *)
(***************************************************************************)
C8_DegenerateRecordAndGoOn ==
    \A i \in dispatch_raised :
        /\ i <= Len(all_results)
        /\ Envelopes(all_results[i]) = <<>>
        /\ "error" \in DOMAIN all_results[i]
        /\ all_results[i].error = Str("dispatch failed")
        /\ all_results[i].business_name = businesses[i].business_name
        /\ pc = "done" =>
             \A j \in (i + 1)..Len(businesses) :
                 /\ j <= Len(all_results)
                 /\ all_results[j].business_name = businesses[j].business_name
                 /\ j \notin dispatch_raised =>
                      Len(Envelopes(all_results[j])) = Len(datasets_to_search)

\* the dispatch raised for the first of two different businesses, and the
\* second was dispatched to all four adapters afterwards
C8_Witness ==
    /\ pc = "done"
    /\ Len(businesses) = 2
    /\ businesses[1] # businesses[2]
    /\ dispatch_raised = {1}
    /\ Len(Envelopes(all_results[2])) = 4
    /\ last.fn = "sba_data"
    /\ last.business_name = businesses[2].business_name

(***************************************************************************)
(* C9.  search_edgar_sec on a 200 response.  The candidates are the        *)
(* directory entries whose lower-cased title contains the lower-cased      *)
(* search name or is contained in it.  With no candidate the status is     *)
(* not_found.  Otherwise the status is found; all_matches lists            *)
(* min(3, number of candidates) different candidates, each with the score  *)
(* |tokens(search name) /\ tokens(title)|, in non-increasing score order,  *)
(* no candidate left out scoring more than a listed one; and best_match is *)
(* all_matches[0], of maximal score among the candidates.  The claim's     *)
(* example: title "Acme Rockets Inc" and search "Acme Rockets" score 2,    *)
(* and so do they with the two names swapped.                              *)
(***************************************************************************)
\* the positions of the candidates in the probed directory
C9_Candidates ==
    { i \in 1..Len(probe.entries) :
        LET title == Lower(Get(probe.entries[i], "title", <<>>))
            name == Lower(probe.business_name)
        IN  IsSubstr(name, title) \/ IsSubstr(title, name) }

\* the word-overlap score of the candidate at position i
C9_Score(i) ==
    Cardinality(SplitSet(Lower(probe.business_name)) \cap
                SplitSet(Lower(Get(probe.entries[i], "title", <<>>))))

\* the names of the claim's example
AcmeRockets == <<"A", "c", "m", "e", " ", "R", "o", "c", "k", "e", "t", "s">>

AcmeRocketsInc == AcmeRockets \o <<" ", "I", "n", "c">>

\* the score search_edgar_sec gives the only entry of a one-title directory
C9_ScoreGiven(search, title) ==
    search_edgar_sec(search, Response(200, Json(Directory(<<Company(1, title)>>))), FALSE)
        .value.data.all_matches[1].match_score

\* the example, either way round
C9_AcmeExample ==
    /\ C9_ScoreGiven(AcmeRockets, AcmeRocketsInc) = 2
    /\ C9_ScoreGiven(AcmeRocketsInc, AcmeRockets) = 2

C9_EdgarMatching ==
    (last.fn = "edgar_sec" /\ last.http.status_code = 200) =>
      LET env == last.result.value
      IN  /\ ~last.result.raised
          /\ C9_AcmeExample
          /\ C9_Candidates = {} => (env.status = "not_found" /\ env.data = None)
          /\ C9_Candidates # {} =>
               /\ env.status = "found"
               /\ env.data.matches_found = Cardinality(C9_Candidates)
               /\ LET top == env.data.all_matches
                  IN  /\ Len(top) = Min(3, Cardinality(C9_Candidates))
                      /\ \A j \in 1..Len(top) :
                           /\ top[j].cik \in C9_Candidates
                           /\ top[j].match_score = C9_Score(top[j].cik)
                      /\ \A j \in 1..Len(top), h \in 1..Len(top) :
                           j < h => /\ top[j].cik # top[h].cik
                                    /\ top[j].match_score >= top[h].match_score
                      /\ \A i \in C9_Candidates :
                           (\A j \in 1..Len(top) : top[j].cik # i) =>
                              C9_Score(i) <= top[Len(top)].match_score
                      /\ env.data.best_match = top[1]
                      /\ \A i \in C9_Candidates : C9_Score(i) <= env.data.best_match.match_score

\* the name "a B" against a directory of four candidates whose first entry
\* scores 0 and whose third scores 2: the list is cut to 3 and reordered
C9_Witness ==
    /\ last.fn = "edgar_sec"
    /\ probe.business_name = <<"a", " ", "B">>
    /\ Cardinality(C9_Candidates) = 4
    /\ C9_Score(1) = 0
    /\ C9_Score(3) = 2
    /\ last.result.value.data.best_match.cik = 3
    /\ Len(last.result.value.data.all_matches) = 3
    /\ last.result.value.data.all_matches[3].match_score = 1

(***************************************************************************)
(* C10.  search_usaspending on a 200 response.  With an empty result list  *)
(* the status is not_found and there is no payload.  Otherwise the status  *)
(* is found, total_awards is the number of returned awards, total_amount   *)
(* is the sum of the amounts of all of them (an award without amount       *)
(* counting 0), and awards holds the first min(5, n) of them in the        *)
(* response's order.                                                       *)
(***************************************************************************)
\* the amount of the i-th returned award
C10_Amount(i) ==
    IF "Award Amount" \in DOMAIN probe.results[i] THEN probe.results[i]["Award Amount"] ELSE 0

\* the sum of the amounts of the first n returned awards
RECURSIVE C10_SumTo(_)
C10_SumTo(n) == IF n = 0 THEN 0 ELSE C10_SumTo(n - 1) + C10_Amount(n)

C10_SpendingSummary ==
    (last.fn = "usaspending" /\ last.http.status_code = 200) =>
      LET env == last.result.value
          n == Len(probe.results)
      IN  /\ ~last.result.raised
          /\ n = 0 => (env.status = "not_found" /\ env.data = None)
          /\ n > 0 =>
               /\ env.status = "found"
               /\ env.data.total_awards = n
               /\ env.data.total_amount = C10_SumTo(n)
               /\ Len(env.data.awards) = Min(5, n)
               /\ \A i \in 1..Len(env.data.awards) :
                    /\ env.data.awards[i].award_id = probe.results[i]["Award ID"]
                    /\ env.data.awards[i].amount = C10_Amount(i)

\* six awards returned, the sixth with a positive amount: five are listed
\* and the total counts all six
C10_Witness ==
    /\ last.fn = "usaspending"
    /\ Len(probe.results) = 6
    /\ C10_Amount(6) > 0
    /\ Len(last.result.value.data.awards) = 5
    /\ last.result.value.data.total_awards = 6
    /\ last.result.value.data.total_amount > C10_SumTo(5)

(***************************************************************************)
(* C11: in a process_businesses run, whenever the dispatch of a business   *)
(* is about to start, the loop has slept exactly one inter-business delay  *)
(* since the previous business's dispatch ended, also when that dispatch   *)
(* raised, and has slept nothing before the first business's dispatch.     *)
(***************************************************************************)
C11_DelayBetweenBusinesses ==
    (pc = "loop" /\ idx < Len(businesses)) =>
        pause = (IF idx = 0 THEN 0 ELSE InterBusinessDelay)

====
